---- MODULE Spec2Model ----
(***************************************************************************)
(* Model of the icon generator's retry-enabled serverless handler          *)
(* (exports.handler with retryWithBackoff, validateInput, generateSeed).   *)
(* One action covers the code that runs between two suspension points of   *)
(* the handler (an await of the backend or of a backoff timer).            *)
(***************************************************************************)
EXTENDS Integers, Sequences, FiniteSets, TLC

\* ------------------------------------------------------------------ bounds
\* number of distinct image references the backend may answer with
MaxUrl == 2

\* ------------------------------------------------------- program constants
MAX_RETRIES == 2
RETRY_DELAY_MS == 1000
\* ICON_VARIATIONS.length
NumVariations == 4
\* results.length >= 2
MinSuccess == 2
\* results.length < 4 / "Only k/4 succeeded"
ExpectedCount == 4

ICON_VARIATIONS == 0 .. (NumVariations - 1)
STYLE_PROMPTS == 1 .. 5

Urls == 1 .. MaxUrl

\* ------------------------------------------------------------- text values
\* A string is the sequence of its UTF-16 code units.
IsWhitespace(c) == c \in {9, 10, 11, 12, 13, 32}

\* positions of the characters that are not whitespace
InkPositions(s) == {k \in 1 .. Len(s) : ~IsWhitespace(s[k])}

TrimStart(s) ==
  LET ink == InkPositions(s)
  IN  IF ink = {} THEN <<>>
      ELSE SubSeq(s, CHOOSE k \in ink : \A j \in ink : k <= j, Len(s))

TrimEnd(s) ==
  LET ink == InkPositions(s)
  IN  IF ink = {} THEN <<>>
      ELSE SubSeq(s, 1, CHOOSE k \in ink : \A j \in ink : k >= j)

\* String.prototype.trim
Trim(s) == TrimEnd(TrimStart(s))

\* `${prompt}-${style}` for a style in 1..5: '-' is 45, digit d is 48 + d
SeedString_m21(prompt, style) == prompt \o <<45>>

SeedString(prompt, style) == prompt \o <<45, 48 + style>>

\* A 32-bit word is kept as two 16-bit halves so that no intermediate value
\* leaves the range of the checker's integers.
Half == 65536

\* hash << 5 on the 32-bit word
WordShl5(h) ==
  [hi |-> (h.hi * 32 + (h.lo * 32) \div Half) % Half, lo |-> (h.lo * 32) % Half]

\* one round of  hash = ((hash << 5) - hash) + char; hash = hash & hash
HashStep_m20(h, c) ==
  LET s == WordShl5(h)
      lo == s.lo + h.lo + c
      hi == s.hi + h.hi + (lo \div Half)
  IN  [hi |-> hi % Half, lo |-> lo % Half]

HashStep(h, c) ==
  LET s == WordShl5(h)
      lo == s.lo - h.lo + c
      hi == s.hi - h.hi + (lo \div Half)
  IN  [hi |-> hi % Half, lo |-> lo % Half]

RECURSIVE HashFold(_, _)
HashFold(h, s) ==
  IF s = <<>> THEN h ELSE HashFold(HashStep(h, Head(s)), Tail(s))

\* Math.abs of the word read as a signed 32-bit integer
AbsInt32(h) ==
  IF h.hi >= Half \div 2
    THEN (Half - 1 - h.hi) * Half + (Half - h.lo)
    ELSE h.hi * Half + h.lo

generateSeed(prompt, style) ==
  AbsInt32(HashFold([hi |-> 0, lo |-> 0], SeedString(prompt, style)))

\* --------------------------------------------------------- request values
\* A value of a parsed JSON body, with what validateInput reads from it:
\* its type, its number, its characters or its elements.
JsUndefined == [kind |-> "undefined", num |-> 0, str |-> <<>>, items |-> <<>>]
JsNull == [kind |-> "null", num |-> 0, str |-> <<>>, items |-> <<>>]
JsNumber(n) == [kind |-> "number", num |-> n, str |-> <<>>, items |-> <<>>]
JsBoolean(b) ==
  [kind |-> "boolean", num |-> IF b THEN 1 ELSE 0, str |-> <<>>, items |-> <<>>]
JsString(s) == [kind |-> "string", num |-> 0, str |-> s, items |-> <<>>]
JsArray(items) == [kind |-> "array", num |-> 0, str |-> <<>>, items |-> items]

\* ToBoolean, as applied by !x and by x && ...
Truthy(v) ==
  CASE v.kind = "undefined" -> FALSE
    [] v.kind = "null" -> FALSE
    [] v.kind = "number" -> v.num # 0
    [] v.kind = "boolean" -> v.num = 1
    [] v.kind = "string" -> v.str # <<>>
    [] OTHER -> TRUE

\* x.length > limit: only strings and arrays have a length, and a comparison
\* with undefined is false
LengthExceeds(v, limit) ==
  CASE v.kind = "string" -> Len(v.str) > limit
    [] v.kind = "array" -> Len(v.items) > limit
    [] OTHER -> FALSE

\* String(n) for an integer n
RECURSIVE DecimalString(_)
DecimalString(n) ==
  IF n < 0 THEN <<45>> \o DecimalString(0 - n)
  ELSE IF n < 10 THEN <<48 + n>>
  ELSE DecimalString(n \div 10) \o <<48 + (n % 10)>>

\* ToPropertyKey of the value used in STYLE_PROMPTS[style]: numbers and
\* booleans print, an array prints its elements joined by ","
RECURSIVE PropertyKey(_)
RECURSIVE JoinElements(_)
JoinElements(items) ==
  IF items = <<>> THEN <<>>
  ELSE LET first == IF Head(items).kind \in {"undefined", "null"}
                      THEN <<>> ELSE PropertyKey(Head(items))
       IN  IF Len(items) = 1 THEN first
           ELSE first \o <<44>> \o JoinElements(Tail(items))

PropertyKey(v) ==
  CASE v.kind = "string" -> v.str
    [] v.kind = "number" -> DecimalString(v.num)
    [] v.kind = "boolean" ->
         IF v.num = 1 THEN <<116, 114, 117, 101>> ELSE <<102, 97, 108, 115, 101>>
    [] v.kind = "null" -> <<110, 117, 108, 108>>
    [] v.kind = "undefined" -> <<117, 110, 100, 101, 102, 105, 110, 101, 100>>
    [] OTHER -> JoinElements(v.items)

\* the own keys "1".."5" of STYLE_PROMPTS
StyleKeys == {DecimalString(n) : n \in STYLE_PROMPTS}

\* names every object literal inherits from Object.prototype, each bound to
\* a function: "toString", "constructor", "valueOf"
KeyToString == <<116, 111, 83, 116, 114, 105, 110, 103>>
KeyConstructor == <<99, 111, 110, 115, 116, 114, 117, 99, 116, 111, 114>>
KeyValueOf == <<118, 97, 108, 117, 101, 79, 102>>
InheritedKeys == {KeyToString, KeyConstructor, KeyValueOf}

\* STYLE_PROMPTS[style] is truthy
StyleLookup(style) == PropertyKey(style) \in StyleKeys \cup InheritedKeys

\* -------------------------------------------------------------- validation
\* prompt.length > 200
MaxPromptLength == 200
\* brandColors.length > 5
MaxBrandColors == 5

ErrPrompt == "Prompt is required and must be a non-empty string"
ErrPromptLength == "Prompt must be less than 200 characters"
ErrStyle == "Invalid style selection"
ErrColorsType == "Brand colors must be an array"
ErrColorsCount == "Maximum 5 brand colors allowed"

\* !prompt || typeof prompt !== 'string' || prompt.trim().length === 0
PromptMissing(prompt) ==
  \/ ~Truthy(prompt)
  \/ prompt.kind # "string"
  \/ Len(Trim(prompt.str)) = 0

\* prompt && prompt.length > 200
PromptTooLong(prompt) == Truthy(prompt) /\ LengthExceeds(prompt, MaxPromptLength)

\* !style || !STYLE_PROMPTS[style]
StyleInvalid(style) == ~Truthy(style) \/ ~StyleLookup(style)

\* brandColors && !Array.isArray(brandColors)
ColorsNotArray(brandColors) == Truthy(brandColors) /\ brandColors.kind # "array"

\* brandColors && brandColors.length > 5
ColorsTooMany(brandColors) ==
  Truthy(brandColors) /\ LengthExceeds(brandColors, MaxBrandColors)

\* if (cond) errors.push(message)
PushIf(cond, message) == IF cond THEN <<message>> ELSE <<>>

validateInput_m14(prompt, style, brandColors) ==
  IF PromptMissing(prompt) THEN <<ErrPrompt>>
  ELSE IF PromptTooLong(prompt) THEN <<ErrPromptLength>>
  ELSE IF StyleInvalid(style) THEN <<ErrStyle>>
  ELSE IF ColorsNotArray(brandColors) THEN <<ErrColorsType>>
  ELSE PushIf(ColorsTooMany(brandColors), ErrColorsCount)

validateInput(prompt, style, brandColors) ==
  PushIf(PromptMissing(prompt), ErrPrompt)
    \o PushIf(PromptTooLong(prompt), ErrPromptLength)
    \o PushIf(StyleInvalid(style), ErrStyle)
    \o PushIf(ColorsNotArray(brandColors), ErrColorsType)
    \o PushIf(ColorsTooMany(brandColors), ErrColorsCount)

\* if (validationErrors.length > 0)
ValidationFailed_m13(validationErrors) == Len(validationErrors) > 1

ValidationFailed(validationErrors) == Len(validationErrors) > 0

\* ---------------------------------------------------------------- requests
\* brandColors of a request body: absent, or an array of colour tokens
NoColors == [kind |-> "absent", items |-> <<>>]
ColorArray(items) == [kind |-> "array", items |-> items]

\* Request bodies that pass validateInput
ValidPrompts == {<<97>>, <<32, 97>>}
ValidStyles == {1, 5}
ValidColors == {NoColors}
ValidRequests ==
  [prompt : ValidPrompts, style : ValidStyles, brandColors : ValidColors]

\* Request bodies of the same shape that validateInput rejects: an empty
\* prompt, an unknown style, both with six colours
SixColors == ColorArray([k \in 1 .. 6 |-> <<35, 48 + k>>])
InvalidRequests ==
  {[prompt |-> <<>>, style |-> 1, brandColors |-> NoColors],
   [prompt |-> <<97>>, style |-> 99, brandColors |-> NoColors],
   [prompt |-> <<32>>, style |-> 99, brandColors |-> SixColors]}

\* const { prompt, style, brandColors } = JSON.parse(event.body)
BodyPrompt(req) == JsString(req.prompt)
BodyStyle(req) == JsNumber(req.style)
BodyColors(req) ==
  IF req.brandColors.kind = "absent"
    THEN JsUndefined
    ELSE JsArray([k \in 1 .. Len(req.brandColors.items) |->
                    JsString(req.brandColors.items[k])])

NoRequest == [prompt |-> <<>>, style |-> 0, brandColors |-> NoColors]

\* brandColors && brandColors.length > 0 ? `, using these exact colors: ...` : ''
colorInstruction(brandColors) ==
  IF brandColors.kind = "array" /\ Len(brandColors.items) > 0
    THEN [present |-> TRUE, colors |-> brandColors.items]
    ELSE [present |-> FALSE, colors |-> <<>>]

\* `${prompt} icon, ${variation}, ${styleDescription}${colorInstruction}, ...`
fullPrompt(req, idx) ==
  [prompt |-> req.prompt, variation |-> idx, style |-> req.style,
   color |-> colorInstruction(req.brandColors)]

\* ---------------------------------------------------------- error messages
\* An error message is kept as what the handler reads from it: the marker
\* substrings it contains and, for the batch failure, the two counts.
Markers == {"API key", "timeout", "rate limit"}

BackendMessage(has) ==
  [kind |-> "backend", has |-> has, succeeded |-> 0, total |-> 0]

\* messages a rejected replicate.run may carry
BackendReasons == {BackendMessage({m}) : m \in Markers} \cup {BackendMessage({})}

\* `Failed to generate sufficient icons. Only ${results.length}/4 succeeded.`
InsufficientMessage_m4(k) ==
  [kind |-> "insufficient", has |-> {}, succeeded |-> k + 1, total |-> ExpectedCount]

InsufficientMessage(k) ==
  [kind |-> "insufficient", has |-> {}, succeeded |-> k, total |-> ExpectedCount]

NoMessage == [kind |-> "none", has |-> {}, succeeded |-> 0, total |-> 0]

\* ------------------------------------------------------------------- state
VARIABLES
  pc,        \* where the handler is suspended: idle, awaiting, sleeping, done
  request,   \* the parsed body { prompt, style, brandColors }
  baseSeed,  \* const baseSeed
  index,     \* loop variable of the task loop
  attempt,   \* loop variable of retryWithBackoff
  results,   \* const results = []
  errors,    \* const errors = []
  response,  \* what the handler returned
  calls,     \* per task index, how many times replicate.run was invoked
  hist,      \* per task index, how each awaited attempt ended
  delays,    \* per task index, the setTimeout delays that were waited
  sent,      \* per task index, the input of each replicate.run invocation
  fnArgs,    \* arguments of a helper function called on its own
  fnResult,  \* what that call returned
  ui,        \* the React client: its useState values and its pending fetches
  peer,      \* the locals of a second, suspended invocation of the handler
  who        \* which of the two invocations is the running one

vars == <<pc, request, baseSeed, index, attempt, results, errors, response,
          calls, hist, delays, sent, fnArgs, fnResult, ui, peer, who>>

NoArgs == [prompt |-> JsUndefined, style |-> JsUndefined, brandColors |-> JsUndefined]
NoResult == <<>>

NoResponse ==
  [statusCode |-> 0, fields |-> {}, success |-> FALSE, icons |-> <<>>,
   partial |-> FALSE, errors |-> <<>>, error |-> "", details |-> NoMessage]

\* the locals of an invocation that has not started
IdleInvocation ==
  [pc |-> "idle", request |-> NoRequest, baseSeed |-> 0, index |-> 0,
   attempt |-> 0, results |-> <<>>, errors |-> <<>>, response |-> NoResponse,
   calls |-> [i \in ICON_VARIATIONS |-> 0],
   hist |-> [i \in ICON_VARIATIONS |-> <<>>],
   delays |-> [i \in ICON_VARIATIONS |-> <<>>],
   sent |-> [i \in ICON_VARIATIONS |-> <<>>]]

\* useState(''), useState(1), useState([]), useState(false), useState('');
\* inflight lists the generateIcons calls suspended at an await
InitialUi ==
  [prompt |-> <<>>, selectedStyle |-> 1, icons |-> <<>>, loading |-> FALSE,
   error |-> "", inflight |-> <<>>]

otherVars == <<ui, peer, who>>

OthersAtRest == ui = InitialUi /\ peer = IdleInvocation /\ who = 1

\* ------------------------------------------------------------- aggregation
\* Array.prototype.sort((a, b) => a.index - b.index), a stable sort
RECURSIVE InsertByIndex(_, _)
InsertByIndex(r, s) ==
  IF s = <<>> THEN <<r>>
  ELSE IF r.index < Head(s).index THEN <<r>> \o s
  ELSE <<Head(s)>> \o InsertByIndex(r, Tail(s))

RECURSIVE SortByIndex(_)
SortByIndex_m23(s) == [k \in 1 .. Len(s) |-> s[Len(s) + 1 - k]]

SortByIndex(s) ==
  IF s = <<>> THEN <<>>
  ELSE InsertByIndex(s[Len(s)], SortByIndex(SubSeq(s, 1, Len(s) - 1)))

\* .map(r => ({ url: r.url, prompt: r.prompt, seed: r.seed }))
IconOf(r) == [url |-> r.url, prompt |-> r.prompt, seed |-> r.seed]

\* the outer catch block: status and message chosen from error.message
CatchResponse(message) ==
  LET chosen ==
        IF "API key" \in message.has
          THEN [statusCode |-> 503, error |-> "API configuration error"]
        ELSE IF "timeout" \in message.has
          THEN [statusCode |-> 504, error |-> "Request timeout - please try again"]
        ELSE IF "rate limit" \in message.has
          THEN [statusCode |-> 429, error |-> "Rate limit exceeded - please wait a moment"]
        ELSE [statusCode |-> 500, error |-> "Failed to generate icons"]
  IN  [statusCode |-> chosen.statusCode, fields |-> {"error", "details"},
       success |-> FALSE, icons |-> <<>>, partial |-> FALSE, errors |-> <<>>,
       error |-> chosen.error, details |-> message]

\* partial: results.length < 4
IsPartial_m3(res) == Len(res) < MinSuccess

IsPartial(res) == Len(res) < ExpectedCount

\* errors: errors.length > 0 ? errors : undefined
ErrorsField(errs) == IF Len(errs) > 0 THEN errs ELSE <<>>

\* if (results.length >= 2)
EnoughResults_m1(res) == Len(res) > MinSuccess

EnoughResults(res) == Len(res) >= MinSuccess

\* the code after the task loop: partial success or the thrown batch failure
Aggregate(res, errs) ==
  IF EnoughResults(res)
    THEN LET sorted == SortByIndex(res)
         IN  [statusCode |-> 200,
              fields |-> {"success", "icons", "partial"}
                           \cup (IF ErrorsField(errs) # <<>> THEN {"errors"} ELSE {}),
              success |-> TRUE,
              icons |-> [k \in 1 .. Len(sorted) |-> IconOf(sorted[k])],
              partial |-> IsPartial(res),
              errors |-> ErrorsField(errs),
              error |-> "", details |-> NoMessage]
    ELSE CatchResponse(InsufficientMessage(Len(res)))

\* ------------------------------------------------------------ retry policy
RECURSIVE Pow2(_)
Pow2(n) == IF n = 0 THEN 1 ELSE 2 * Pow2(n - 1)

\* const delay = RETRY_DELAY_MS * Math.pow(2, attempt)
BackoffDelay_m6(a) == RETRY_DELAY_MS \div Pow2(a)

BackoffDelay_m8(a) == RETRY_DELAY_MS * Pow2(a + 1)

BackoffDelay(a) == RETRY_DELAY_MS * Pow2(a)

\* if (attempt === maxRetries) throw error
IsFinalAttempt_m7(a) == a >= MAX_RETRIES - 1

IsFinalAttempt_m25(a) == a = MAX_RETRIES + 1

IsFinalAttempt(a) == a = MAX_RETRIES

\* results.push({ index, url, prompt, seed })
PushResult(res, entry) == Append(res, entry)

\* errors.push({ index, error: error.message })
PushError_m2(errs, idx, message) == errs

PushError(errs, idx, message) == Append(errs, [index |-> idx, error |-> message])

\* ----------------------------------------------------------------- actions
Init ==
  /\ pc = "idle"
  /\ request = NoRequest
  /\ baseSeed = 0
  /\ index = 0
  /\ attempt = 0
  /\ results = <<>>
  /\ errors = <<>>
  /\ response = NoResponse
  /\ calls = [i \in ICON_VARIATIONS |-> 0]
  /\ hist = [i \in ICON_VARIATIONS |-> <<>>]
  /\ delays = [i \in ICON_VARIATIONS |-> <<>>]
  /\ sent = [i \in ICON_VARIATIONS |-> <<>>]
  /\ fnArgs = NoArgs
  /\ fnResult = NoResult
  /\ OthersAtRest

\* const iconSeed = baseSeed + index
iconSeed_m18(base, idx) == base

iconSeed(base, idx) == base + idx

\* the input of replicate.run: { prompt: fullPrompt, seed: iconSeed, ... };
\* the closure is the same for every attempt of the task
BackendInput_m19(req, base, idx, att) ==
  [prompt |-> fullPrompt(req, idx), seed |-> iconSeed(base, idx) + att]

BackendInput(req, base, idx, att) ==
  [prompt |-> fullPrompt(req, idx), seed |-> iconSeed(base, idx)]

\* for (let index = 0; index < ICON_VARIATIONS.length; index++): the loop
\* test with the index `next`, then either the first replicate.run of that
\* task or the code after the loop
EnterIteration(next, res, errs) ==
  /\ index' = next
  /\ results' = res
  /\ errors' = errs
  /\ IF next < NumVariations
       THEN /\ attempt' = 0
            /\ calls' = [calls EXCEPT ![next] = @ + 1]
            /\ sent' = [sent EXCEPT ![next] =
                          Append(@, BackendInput(request', baseSeed', next, 0))]
            /\ pc' = "awaiting"
            /\ response' = response
       ELSE /\ attempt' = attempt
            /\ calls' = calls
            /\ sent' = sent
            /\ pc' = "done"
            /\ response' = Aggregate(res, errs)

\* return { statusCode: 400, ... error: 'Validation failed', details }
ValidationResponse(validationErrors) ==
  [statusCode |-> 400, fields |-> {"error", "details"},
   success |-> FALSE, icons |-> <<>>, partial |-> FALSE, errors |-> <<>>,
   error |-> "Validation failed", details |-> validationErrors]

\* a POST with a parsed body: validation, then either the 400 response or
\* the seed and the code up to the first await
HandlerStart ==
  /\ pc = "idle"
  /\ \E req \in ValidRequests \cup InvalidRequests :
       LET validationErrors ==
             validateInput(BodyPrompt(req), BodyStyle(req), BodyColors(req))
       IN  /\ request' = req
           /\ IF ValidationFailed(validationErrors)
                THEN /\ pc' = "rejected"
                     /\ response' = ValidationResponse(validationErrors)
                     /\ UNCHANGED <<baseSeed, index, attempt, results, errors,
                                    calls, sent>>
                ELSE /\ baseSeed' = generateSeed(Trim(req.prompt), req.style)
                     /\ EnterIteration(0, <<>>, <<>>)
  /\ UNCHANGED <<hist, delays, fnArgs, fnResult, otherVars>>

\* the task's catch block: the failure is recorded and the loop goes on
TaskFailed_m9(message) ==
  /\ pc' = "done"
  /\ response' = CatchResponse(message)
  /\ UNCHANGED <<index, attempt, results, errors, calls, sent>>

TaskFailed(message) ==
  EnterIteration(index + 1, results, PushError(errors, index, message))

\* replicate.run resolves: the result is pushed and the loop goes on
BackendResolve ==
  /\ pc = "awaiting"
  /\ UNCHANGED <<request, baseSeed, delays, fnArgs, fnResult, otherVars>>
  /\ \E u \in Urls, isArray \in BOOLEAN :
       LET output == [isArray |-> isArray, first |-> u]
           \* Array.isArray(output) ? String(output[0]) : String(output)
           imageUrl == output.first
           entry == [index |-> index, url |-> imageUrl,
                     prompt |-> fullPrompt(request, index),
                     seed |-> iconSeed(baseSeed, index)]
       IN  EnterIteration(index + 1, PushResult(results, entry), errors)
  /\ hist' = [hist EXCEPT ![index] = Append(@, "ok")]

\* replicate.run rejects: retryWithBackoff's catch, then either the backoff
\* timer or the task's catch and the next iteration
BackendReject ==
  /\ pc = "awaiting"
  /\ UNCHANGED <<request, baseSeed, fnArgs, fnResult, otherVars>>
  /\ hist' = [hist EXCEPT ![index] = Append(@, "fail")]
  /\ \E reason \in BackendReasons :
       IF IsFinalAttempt(attempt)
         THEN /\ TaskFailed(reason)
              /\ delays' = delays
         ELSE /\ delays' = [delays EXCEPT ![index] = Append(@, BackoffDelay(attempt))]
              /\ pc' = "sleeping"
              /\ UNCHANGED <<index, attempt, results, errors, response, calls, sent>>

\* the backoff timer fires: attempt++ and replicate.run is invoked again
TimerFires ==
  /\ pc = "sleeping"
  /\ attempt' = attempt + 1
  /\ calls' = [calls EXCEPT ![index] = @ + 1]
  /\ sent' = [sent EXCEPT ![index] =
                Append(@, BackendInput(request, baseSeed, index, attempt + 1))]
  /\ pc' = "awaiting"
  /\ UNCHANGED <<request, baseSeed, index, results, errors, response, hist,
                 delays, fnArgs, fnResult, otherVars>>

Next == HandlerStart \/ BackendResolve \/ BackendReject \/ TimerFires

Spec == Init /\ [][Next]_vars

\* The handler's own steps always run: an invocation starts and a backoff
\* timer fires.  When, and whether, replicate.run settles is up to the backend.
SpecLive == Init /\ [][Next]_vars /\ WF_vars(HandlerStart) /\ WF_vars(TimerFires)

\* ------------------------------------------- bodies that are no JSON object
\* event.body as JSON.parse and the destructuring see it: text that is not
\* JSON (with the marker words it contains), the text null, or a JSON number,
\* string, boolean or array
MalformedBodies ==
  {[kind |-> "invalid", has |-> {}], [kind |-> "invalid", has |-> {"timeout"}],
   [kind |-> "null", has |-> {}], [kind |-> "number", has |-> {}],
   [kind |-> "string", has |-> {}], [kind |-> "boolean", has |-> {}],
   [kind |-> "array", has |-> {}]}

\* JSON.parse throws a SyntaxError; destructuring null throws a TypeError
ParseThrows(body) == body.kind \in {"invalid", "null"}

\* the message of the thrown error; whether a SyntaxError quotes the text of
\* the body is up to the engine
ParseMessages(body) ==
  IF body.kind = "invalid"
    THEN {[kind |-> "syntax", has |-> h, succeeded |-> 0, total |-> 0] :
            h \in {{}, body.has}}
    ELSE {[kind |-> "type", has |-> {}, succeeded |-> 0, total |-> 0]}

\* try { const { prompt, style, brandColors } = JSON.parse(event.body); ... }
\* catch (error) { ... }: the parse is inside the try block
ParseCatch_m26(message) == NoResponse

ParseCatch(message) == CatchResponse(message)

\* a POST whose body is no JSON object: either the parse or the destructuring
\* throws, or prompt, style and brandColors are all undefined
HandlerBadBody ==
  /\ pc = "idle"
  /\ \E body \in MalformedBodies :
       IF ParseThrows(body)
         THEN \E message \in ParseMessages(body) :
                /\ pc' = "caught"
                /\ response' = ParseCatch(message)
         ELSE LET validationErrors ==
                    validateInput(JsUndefined, JsUndefined, JsUndefined)
              IN  /\ ValidationFailed(validationErrors)
                  /\ pc' = "rejected"
                  /\ response' = ValidationResponse(validationErrors)
  /\ UNCHANGED <<request, baseSeed, index, attempt, results, errors, calls,
                 hist, delays, sent, fnArgs, fnResult, otherVars>>

NextBody == HandlerBadBody \/ Next

SpecBody == Init /\ [][NextBody]_vars

\* ------------------------------------------ two invocations of the handler
\* Each invocation of exports.handler has its own prompt, baseSeed, results,
\* errors and loop variables.  The variables above are those of the running
\* invocation, peer holds those of the other one, suspended at an await.
Loaded ==
  [pc |-> pc, request |-> request, baseSeed |-> baseSeed, index |-> index,
   attempt |-> attempt, results |-> results, errors |-> errors,
   response |-> response, calls |-> calls, hist |-> hist, delays |-> delays,
   sent |-> sent]

\* const results = [] is declared inside the handler: the invocation that
\* resumes finds its own array, not the one the other invocation pushed to
ResumeResults_m24(saved, current) == current

ResumeResults(saved, current) == saved

\* the event loop leaves the running invocation at its await and runs the
\* other one, unless that one has returned
Switch ==
  /\ peer.pc # "done"
  /\ who' = 3 - who
  /\ peer' = Loaded
  /\ pc' = peer.pc
  /\ request' = peer.request
  /\ baseSeed' = peer.baseSeed
  /\ index' = peer.index
  /\ attempt' = peer.attempt
  /\ results' = ResumeResults(peer.results, results)
  /\ errors' = peer.errors
  /\ response' = peer.response
  /\ calls' = peer.calls
  /\ hist' = peer.hist
  /\ delays' = peer.delays
  /\ sent' = peer.sent
  /\ UNCHANGED <<fnArgs, fnResult, ui>>

\* the body each of the two invocations is called with
TwoRequest(w) ==
  IF w = 1
    THEN [prompt |-> <<97>>, style |-> 1, brandColors |-> NoColors]
    ELSE [prompt |-> <<32, 97>>, style |-> 5, brandColors |-> NoColors]

\* the inputs of the two invocations: the two bodies, one url for every image
\* and one message for every rejection
TwoInputs ==
  /\ pc # "idle" => request = TwoRequest(who)
  /\ \A k \in 1 .. Len(results) : results[k].url = 1
  /\ \A k \in 1 .. Len(errors) : errors[k].error = BackendMessage({})

TwoStep == Next /\ TwoInputs'

NextTwo == TwoStep \/ Switch

SpecTwo == Init /\ [][NextTwo]_vars

\* ------------------------------------------------ the handler without retry
\* Bodies for the handler that has no validateInput: those above and one with
\* a blank prompt and six colours, which it accepts
BasicRequests ==
  ValidRequests \cup InvalidRequests
    \cup {[prompt |-> <<32>>, style |-> 1, brandColors |-> SixColors]}

\* if (!prompt || !style)
BasicMissing(req) == ~Truthy(BodyPrompt(req)) \/ ~Truthy(BodyStyle(req))

\* const styleDescription = STYLE_PROMPTS[style]; if (!styleDescription)
BasicStyleUnknown(req) == ~StyleLookup(BodyStyle(req))

\* return { statusCode: 400, ... body: JSON.stringify({ error }) }
BasicRefusal(text) ==
  [statusCode |-> 400, fields |-> {"error"}, success |-> FALSE, icons |-> <<>>,
   partial |-> FALSE, errors |-> <<>>, error |-> text, details |-> NoMessage]

\* brandColors ? `, using color palette: ${brandColors.join(', ')}` : ''
basicColorInstruction(brandColors) ==
  IF brandColors.kind = "array"
    THEN [present |-> TRUE, colors |-> brandColors.items]
    ELSE [present |-> FALSE, colors |-> <<>>]

\* `${prompt} icon, ${variation}, ${styleDescription}${colorInstruction}, ...`
basicFullPrompt(req, idx) ==
  [prompt |-> req.prompt, variation |-> idx, style |-> req.style,
   color |-> basicColorInstruction(req.brandColors)]

\* the values array of Promise.all(promises): one slot per promise, empty
\* until that promise is fulfilled
NoValue == [index |-> 0 - 1, url |-> 0, prompt |-> basicFullPrompt(NoRequest, 0 - 1)]
NoValues == [k \in 1 .. NumVariations |-> NoValue]

\* Promise.all resolves when every promise is fulfilled
AllFulfilled_m27(values) ==
  Cardinality({k \in 1 .. NumVariations : values[k] # NoValue}) >= MinSuccess

AllFulfilled(values) == \A k \in 1 .. NumVariations : values[k] # NoValue

\* results.sort(...), then icons: results.map(r => ({ url, prompt }))
BasicSuccess(values) ==
  LET sorted == SortByIndex(values)
  IN  [statusCode |-> 200, fields |-> {"success", "icons"}, success |-> TRUE,
       icons |-> [k \in 1 .. Len(sorted) |->
                    [url |-> sorted[k].url, prompt |-> sorted[k].prompt]],
       partial |-> FALSE, errors |-> <<>>, error |-> "", details |-> NoMessage]

\* catch (error): 500 { error: 'Failed to generate icons', details }
BasicCatch(message) ==
  [statusCode |-> 500, fields |-> {"error", "details"}, success |-> FALSE,
   icons |-> <<>>, partial |-> FALSE, errors |-> <<>>,
   error |-> "Failed to generate icons", details |-> message]

\* a POST: the two 400 returns, or ICON_VARIATIONS.map(async ...) runs every
\* callback up to its await, so that the four replicate.run are in flight when
\* the handler awaits Promise.all
BasicStart ==
  /\ pc = "idle"
  /\ \E req \in BasicRequests :
       /\ request' = req
       /\ IF BasicMissing(req) \/ BasicStyleUnknown(req)
            THEN /\ pc' = "basic_done"
                 /\ response' =
                      BasicRefusal(IF BasicMissing(req)
                                     THEN "Prompt and style are required"
                                     ELSE "Invalid style selection")
                 /\ UNCHANGED <<results, calls, sent>>
            ELSE /\ pc' = "basic_waiting"
                 /\ results' = NoValues
                 /\ calls' = [i \in ICON_VARIATIONS |-> 1]
                 /\ sent' = [i \in ICON_VARIATIONS |->
                               <<[prompt |-> basicFullPrompt(req, i)]>>]
                 /\ response' = response
  /\ UNCHANGED <<baseSeed, index, attempt, errors, hist, delays, fnArgs,
                 fnResult, otherVars>>

\* the replicate.run of one callback is still awaited
InFlight(i) == calls[i] = 1 /\ hist[i] = <<>>

\* one replicate.run resolves: its callback returns { index, url, prompt };
\* the handler goes on when this was the last value Promise.all waited for
BasicResolve ==
  /\ pc \in {"basic_waiting", "basic_done"}
  /\ \E i \in ICON_VARIATIONS, u \in Urls, isArray \in BOOLEAN :
       LET output == [isArray |-> isArray, first |-> u]
           imageUrl == output.first
           value == [index |-> i, url |-> imageUrl,
                     prompt |-> basicFullPrompt(request, i)]
           values == [results EXCEPT ![i + 1] = value]
       IN  /\ InFlight(i)
           /\ hist' = [hist EXCEPT ![i] = <<"ok">>]
           /\ results' = values
           /\ IF pc = "basic_waiting" /\ AllFulfilled(values)
                THEN pc' = "basic_done" /\ response' = BasicSuccess(values)
                ELSE UNCHANGED <<pc, response>>
  /\ UNCHANGED <<request, baseSeed, index, attempt, errors, calls, delays, sent,
                 fnArgs, fnResult, otherVars>>

\* one replicate.run rejects: Promise.all rejects with the first rejection
\* and the catch block answers; later rejections change nothing
BasicReject ==
  /\ pc \in {"basic_waiting", "basic_done"}
  /\ \E i \in ICON_VARIATIONS, reason \in BackendReasons :
       /\ InFlight(i)
       /\ hist' = [hist EXCEPT ![i] = <<"fail">>]
       /\ IF pc = "basic_waiting"
            THEN pc' = "basic_done" /\ response' = BasicCatch(reason)
            ELSE UNCHANGED <<pc, response>>
  /\ UNCHANGED <<request, baseSeed, index, attempt, results, errors, calls,
                 delays, sent, fnArgs, fnResult, otherVars>>

NextBasic == BasicStart \/ BasicResolve \/ BasicReject

SpecBasic == Init /\ [][NextBasic]_vars

\* ------------------------------------------------ validateInput on its own
Repeat(c, n) == [k \in 1 .. n |-> c]

PromptInputs ==
  {JsUndefined, JsNull, JsNumber(0), JsNumber(5),
   JsArray(<<JsString(<<97>>)>>),
   JsString(<<>>), JsString(<<32>>), JsString(<<97>>), JsString(<<32, 97>>),
   JsString(Repeat(97, MaxPromptLength)),
   JsString(Repeat(97, MaxPromptLength + 1)),
   JsString(<<32>> \o Repeat(97, MaxPromptLength)),
   JsString(Repeat(32, MaxPromptLength + 1))}

StyleInputs ==
  {JsUndefined, JsNull, JsBoolean(TRUE), JsString(<<>>),
   JsNumber(0), JsNumber(1), JsNumber(3), JsNumber(5), JsNumber(6), JsNumber(99),
   JsString(<<49>>), JsString(<<54>>),
   JsString(KeyToString), JsString(KeyConstructor),
   JsArray(<<JsNumber(1)>>), JsArray(<<>>), JsArray(<<JsNumber(1), JsNumber(2)>>)}

ColorInputs ==
  {JsUndefined, JsNull, JsBoolean(FALSE), JsBoolean(TRUE),
   JsNumber(0), JsNumber(7), JsString(<<>>),
   JsString(<<114, 101, 100>>),
   JsString(<<110, 111, 116, 45, 97, 110, 45, 97, 114, 114, 97, 121>>)}
    \cup {JsArray(Repeat(JsString(<<35>>), n)) :
            n \in {0, 1, MaxBrandColors, MaxBrandColors + 1}}

ValidateInputs ==
  [prompt : PromptInputs, style : StyleInputs, brandColors : ColorInputs]

HandlerAtRest ==
  /\ request = NoRequest
  /\ baseSeed = 0
  /\ index = 0
  /\ attempt = 0
  /\ results = <<>>
  /\ errors = <<>>
  /\ response = NoResponse
  /\ calls = [i \in ICON_VARIATIONS |-> 0]
  /\ hist = [i \in ICON_VARIATIONS |-> <<>>]
  /\ delays = [i \in ICON_VARIATIONS |-> <<>>]
  /\ sent = [i \in ICON_VARIATIONS |-> <<>>]

handlerVars == <<request, baseSeed, index, attempt, results, errors, response,
                 calls, hist, delays, sent>>

InitValidate ==
  /\ pc = "validate_call"
  /\ fnArgs \in ValidateInputs
  /\ fnResult = NoResult
  /\ HandlerAtRest
  /\ OthersAtRest

\* validateInput(prompt, style, brandColors) is called and returns
ApplyValidate ==
  /\ pc = "validate_call"
  /\ fnResult' = validateInput(fnArgs.prompt, fnArgs.style, fnArgs.brandColors)
  /\ pc' = "validate_returned"
  /\ UNCHANGED <<fnArgs, handlerVars, otherVars>>

NextValidate == ApplyValidate

SpecValidate == InitValidate /\ [][NextValidate]_vars

\* -------------------------------------------------- generateSeed on its own
\* longest prompt of the seed inputs
SeedMaxLen == 4

\* code units of the prompts: 'A', 'B', 'a' and the largest UTF-16 code unit
SeedAlphabet == {65, 66, 97, 65535}

SeedPrompts == UNION {[1 .. n -> SeedAlphabet] : n \in 0 .. SeedMaxLen}

SeedInputs == [prompt : SeedPrompts, style : STYLE_PROMPTS]

InitSeed ==
  /\ pc = "seed_call"
  /\ fnArgs \in SeedInputs
  /\ fnResult = 0
  /\ HandlerAtRest
  /\ OthersAtRest

\* generateSeed(prompt, style) is called and returns
ApplySeed ==
  /\ pc = "seed_call"
  /\ fnResult' = generateSeed(fnArgs.prompt, fnArgs.style)
  /\ pc' = "seed_returned"
  /\ UNCHANGED <<fnArgs, handlerVars, otherVars>>

NextSeed == ApplySeed

SpecSeed == InitSeed /\ [][NextSeed]_vars

\* --------------------------------------------------------- the React client
\* most generateIcons calls that may be suspended at the same time
MaxInflight == 2

\* what the user types into the prompt field
TypedPrompts == {<<>>, <<32>>, <<97>>, <<32, 97>>}

\* the style buttons that are clicked
ClickedStyles == {1, 5}

\* data.icons of a 200 response: 2 to 4 icons
IconLists == UNION {[1 .. n -> Urls] : n \in MinSuccess .. ExpectedCount}

\* errorData.error of a response that is not ok; "" when the field is absent
ServerErrors == {"Validation failed", "Failed to generate icons", ""}

\* err.message of a rejected fetch and of a rejected response.json()
FetchFailure == "Failed to fetch"
JsonFailure == "Unexpected token"

\* disabled={loading || !prompt.trim()}
ButtonDisabled_m28(u) == Trim(u.prompt) = <<>>

ButtonDisabled(u) == u.loading \/ Trim(u.prompt) = <<>>

\* setLoading(true); setError(''); setIcons([])
StartGeneration_m29(u) == [u EXCEPT !.loading = TRUE, !.icons = <<>>]

StartGeneration(u) == [u EXCEPT !.loading = TRUE, !.error = "", !.icons = <<>>]

\* the inflight list without its k-th entry
Without(s, k) == SubSeq(s, 1, k - 1) \o SubSeq(s, k + 1, Len(s))

\* catch (err) { setError(err.message) } finally { setLoading(false) }
Failed(u, k, message) ==
  [u EXCEPT !.error = message, !.loading = FALSE, !.inflight = Without(@, k)]

clientRest == <<pc, handlerVars, fnArgs, fnResult, peer, who>>

\* onChange={(e) => setPrompt(e.target.value)}, disabled={loading}
OnPromptChange ==
  /\ ~ui.loading
  /\ \E text \in TypedPrompts : ui' = [ui EXCEPT !.prompt = text]
  /\ UNCHANGED clientRest

\* onClick={() => setSelectedStyle(style.id)}, disabled={loading}
OnStyleClick ==
  /\ ~ui.loading
  /\ \E id \in ClickedStyles : ui' = [ui EXCEPT !.selectedStyle = id]
  /\ UNCHANGED clientRest

\* a click on the Generate button: generateIcons up to await fetch(...)
GenerateIcons ==
  /\ ~ButtonDisabled(ui)
  /\ Len(ui.inflight) < MaxInflight
  /\ ui' = IF Trim(ui.prompt) = <<>>
             THEN [ui EXCEPT !.error = "Please enter a prompt"]
             ELSE [StartGeneration(ui) EXCEPT !.inflight = Append(@, "fetch")]
  /\ UNCHANGED clientRest

\* fetch resolves: response.ok is read, then response.json() is awaited
FetchResolves ==
  /\ \E k \in 1 .. Len(ui.inflight), ok \in BOOLEAN :
       /\ ui.inflight[k] = "fetch"
       /\ ui' = [ui EXCEPT !.inflight[k] = IF ok THEN "data" ELSE "errorData"]
  /\ UNCHANGED clientRest

\* fetch rejects: catch and finally
FetchRejects ==
  /\ \E k \in 1 .. Len(ui.inflight) :
       /\ ui.inflight[k] = "fetch"
       /\ ui' = Failed(ui, k, FetchFailure)
  /\ UNCHANGED clientRest

\* response.json() resolves: setIcons(data.icons), or
\* throw new Error(errorData.error || 'Failed to generate icons'); finally
JsonResolves ==
  /\ \E k \in 1 .. Len(ui.inflight) :
       \/ /\ ui.inflight[k] = "data"
          /\ \E list \in IconLists :
               ui' = [ui EXCEPT !.icons = list, !.loading = FALSE,
                                !.inflight = Without(@, k)]
       \/ /\ ui.inflight[k] = "errorData"
          /\ \E text \in ServerErrors :
               ui' = Failed(ui, k, IF text # "" THEN text
                                   ELSE "Failed to generate icons")
  /\ UNCHANGED clientRest

\* response.json() rejects: catch and finally
JsonRejects ==
  /\ \E k \in 1 .. Len(ui.inflight) :
       /\ ui.inflight[k] \in {"data", "errorData"}
       /\ ui' = Failed(ui, k, JsonFailure)
  /\ UNCHANGED clientRest

NextClient ==
  \/ OnPromptChange \/ OnStyleClick \/ GenerateIcons
  \/ FetchResolves \/ FetchRejects \/ JsonResolves \/ JsonRejects

SpecClient == Init /\ [][NextClient]_vars

\* ------------------------------------------------- vocabulary of the claims
\* the last awaited attempt of task i resolved
Succeeded(i) == hist[i] # <<>> /\ hist[i][Len(hist[i])] = "ok"

\* MAX_RETRIES + 1 consecutive attempts of task i were rejected
Exhausted(i) ==
  /\ Len(hist[i]) = MAX_RETRIES + 1
  /\ \A a \in 1 .. Len(hist[i]) : hist[i][a] = "fail"

SuccessSet == {i \in ICON_VARIATIONS : Succeeded(i)}
FailureSet == {i \in ICON_VARIATIONS : Exhausted(i)}


ResultIndexes == {results[k].index : k \in 1 .. Len(results)}
ErrorIndexes == {errors[k].index : k \in 1 .. Len(errors)}
IconIndexes == {response.icons[k].prompt.variation : k \in 1 .. Len(response.icons)}
ResponseErrorIndexes == {response.errors[k].index : k \in 1 .. Len(response.errors)}

NonDecreasing(s) == \A a \in 1 .. Len(s) - 1 : s[a] <= s[a + 1]

\* ------------------------------------------------------------------ claims

\* C1: the response is 200 with success:true exactly when at least 2 of the 4
\* tasks ended in success, and then icons holds exactly one entry per
\* successful task (2 to 4 entries).
C1_SuccessIffThreshold ==
  pc = "done" =>
    /\ (response.statusCode = 200 /\ response.success)
          <=> Cardinality(SuccessSet) >= 2
    /\ response.statusCode = 200 =>
         /\ IconIndexes = SuccessSet
         /\ Len(response.icons) = Cardinality(SuccessSet)
         /\ Len(response.icons) \in 2 .. 4

C1_Witness ==
  /\ pc = "done"
  /\ response.statusCode = 200
  /\ Cardinality(SuccessSet) = 2
  /\ Cardinality(FailureSet) = 2

\* C2: when the task loop has finished, results and errors together hold
\* exactly 4 outcomes and every index 0..3 is in exactly one of the lists.
C2_OneOutcomePerTask ==
  pc = "done" =>
    /\ Len(results) + Len(errors) = 4
    /\ \A i \in 0 .. 3 :
         Cardinality({k \in 1 .. Len(results) : results[k].index = i})
           + Cardinality({k \in 1 .. Len(errors) : errors[k].index = i}) = 1

C2_Witness ==
  /\ pc = "done"
  /\ Len(results) = 2
  /\ Len(errors) = 2
  /\ ResultIndexes = {1, 3}

\* C3: in a 200 response partial is true exactly when fewer than 4 tasks
\* succeeded, and the errors field is present exactly when a task failed,
\* holding one entry per failed task with that task's index.
C3_PartialAndErrors ==
  (pc = "done" /\ response.statusCode = 200) =>
    /\ response.partial <=> Cardinality(SuccessSet) < 4
    /\ ("errors" \in response.fields) <=> FailureSet # {}
    /\ ResponseErrorIndexes = FailureSet
    /\ Len(response.errors) = Cardinality(FailureSet)

C3_Witness ==
  /\ pc = "done"
  /\ response.statusCode = 200
  /\ FailureSet = {3}
  /\ response.partial
  /\ Len(response.icons) = 3
  /\ Len(response.errors) = 1
  /\ response.errors[1].index = 3

\* C4: with fewer than 2 successes the response is an error, never a 200; its
\* body carries the success count against 4 and has no icons array.
C4_InsufficientIsHardFailure ==
  (pc = "done" /\ Cardinality(SuccessSet) < 2) =>
    /\ response.statusCode >= 400
    /\ response.details.kind = "insufficient"
    /\ response.details.succeeded = Cardinality(SuccessSet)
    /\ response.details.total = 4
    /\ "icons" \notin response.fields
    /\ response.icons = <<>>

C4_Witness ==
  /\ pc = "done"
  /\ Cardinality(SuccessSet) = 1
  /\ response.statusCode = 500

\* C5: with fewer than 2 successes the batch failure carries the list of
\* per-index task failures (index and reason of every failed task).
C5_FailureListAttached ==
  (pc = "done" /\ Cardinality(SuccessSet) < 2) =>
    /\ "errors" \in response.fields
    /\ response.errors = errors

\* C6: a task whose first k attempts fail and whose attempt k+1 succeeds, k in
\* 0..MAX_RETRIES, had the backend invoked exactly k+1 times, is recorded as a
\* success carrying the returned value, and waited k non-decreasing delays.
C6_RetriedExactlyK ==
  \A i \in ICON_VARIATIONS :
    Succeeded(i) =>
      LET k == Len(hist[i]) - 1 IN
        /\ k \in 0 .. MAX_RETRIES
        /\ \A a \in 1 .. k : hist[i][a] = "fail"
        /\ calls[i] = k + 1
        /\ i \in ResultIndexes
        /\ i \notin ErrorIndexes
        /\ \A r \in 1 .. Len(results) : results[r].index = i => results[r].url \in Urls
        /\ Len(delays[i]) = k
        /\ NonDecreasing(delays[i])

C6_Witness ==
  /\ hist[0] = <<"ok">>
  /\ hist[1] = <<"fail", "ok">>
  /\ hist[2] = <<"fail", "fail", "ok">>
  /\ calls[2] = 3
  /\ 2 \in ResultIndexes

\* C7: a task is recorded as a failure exactly when MAX_RETRIES + 1 = 3
\* consecutive attempts failed; the backend is never invoked more than 3 times
\* for a task, and never again for an index that has reached its outcome.
C7_StateInv ==
  \A i \in ICON_VARIATIONS :
    /\ (i \in ErrorIndexes) <=> Exhausted(i)
    /\ calls[i] <= MAX_RETRIES + 1
    /\ Len(hist[i]) <= calls[i]

C7_Step ==
  \A i \in ICON_VARIATIONS :
    (Succeeded(i) \/ Exhausted(i)) => (calls'[i] = calls[i] /\ hist'[i] = hist[i])

C7_FailureOnlyAfterExhaustion == [](C7_StateInv) /\ [][C7_Step]_vars

C7_Witness ==
  /\ Exhausted(0)
  /\ 0 \in ErrorIndexes
  /\ calls[0] = 3
  /\ calls[1] >= 1

\* C8 as stated: after every failed attempt a in 0..MAX_RETRIES a delay of
\* RETRY_DELAY_MS * 2^a is waited.
C8_DelayAfterEveryAttempt ==
  \A i \in ICON_VARIATIONS : \A a \in 0 .. MAX_RETRIES :
    (Len(hist[i]) > a /\ hist[i][a + 1] = "fail") =>
      (Len(delays[i]) > a /\ delays[i][a + 1] = 1000 * Pow2(a))

\* C8 amended: after a failed attempt a in 0..MAX_RETRIES-1 the delay waited is
\* exactly 1000 * 2^a; after the failed final attempt no delay is waited.
C8_DelayAfterNonFinalAttempt ==
  \A i \in ICON_VARIATIONS :
    /\ \A a \in 0 .. MAX_RETRIES - 1 :
         (Len(hist[i]) > a /\ hist[i][a + 1] = "fail") =>
           (Len(delays[i]) > a /\ delays[i][a + 1] = 1000 * Pow2(a))
    /\ Len(delays[i]) <= MAX_RETRIES

C8_Witness ==
  /\ Exhausted(1)
  /\ delays[1] = <<1000, 2000>>

\* C9: a task that exhausts its retries never aborts the batch: every other
\* task still has the backend invoked and gets its own outcome, which is
\* decided by its own attempts only.
C9_FailureDoesNotAbort ==
  /\ \A i \in ICON_VARIATIONS :
       (Exhausted(i) /\ i + 1 < NumVariations) => calls[i + 1] >= 1
  /\ pc = "done" =>
       \A j \in ICON_VARIATIONS :
         /\ calls[j] >= 1
         /\ (j \in ResultIndexes) <=> Succeeded(j)
         /\ (j \in ErrorIndexes) <=> Exhausted(j)
         /\ Succeeded(j) \/ Exhausted(j)

C9_Witness ==
  /\ pc = "done"
  /\ Exhausted(0)
  /\ SuccessSet = {1, 2, 3}
  /\ ResultIndexes = {1, 2, 3}

\* C10: the four tasks are launched concurrently: whenever a task is awaiting
\* the backend or sleeping in a backoff delay, the first attempt of every
\* task has already been started.
C10_LaunchedConcurrently ==
  pc \in {"awaiting", "sleeping"} => \A j \in ICON_VARIATIONS : calls[j] >= 1

\* C11: whatever the backend does (resolve, reject or never settle), the
\* handler eventually returns a response.
C11_EventuallyResponds == <>(pc \in {"done", "rejected"})

\* C12: when the batch fails because the backend calls failed, the status
\* follows the backend's failure reason: "rate limit" gives 429, "API key"
\* 503, "timeout" 504 and anything else 500.
StatusForReason(message) ==
  IF "rate limit" \in message.has THEN 429
  ELSE IF "API key" \in message.has THEN 503
  ELSE IF "timeout" \in message.has THEN 504
  ELSE 500

C12_StatusFromBackendReason ==
  (pc = "done" /\ response.statusCode # 200) =>
    \A k \in 1 .. Len(errors) :
      (\A j \in 1 .. Len(errors) : errors[j].error = errors[k].error) =>
        response.statusCode = StatusForReason(errors[k].error)

\* C13: when validateInput returns a non-empty list the handler answers 400
\* "Validation failed" with that list as details, and the batch never starts:
\* no seed is derived and the backend is not invoked.
RequestErrors ==
  validateInput(BodyPrompt(request), BodyStyle(request), BodyColors(request))

C13_ValidationStopsBatch ==
  /\ (pc # "idle" /\ RequestErrors # <<>>) => pc = "rejected"
  /\ pc = "rejected" =>
       /\ response.statusCode = 400
       /\ response.error = "Validation failed"
       /\ response.details = RequestErrors
       /\ response.details # <<>>
       /\ baseSeed = 0
       /\ \A i \in ICON_VARIATIONS : calls[i] = 0 /\ sent[i] = <<>> /\ hist[i] = <<>>

C13_Witness ==
  /\ pc = "rejected"
  /\ response.statusCode = 400
  /\ response.details = <<ErrPrompt, ErrStyle, ErrColorsCount>>

\* C14: validateInput checks its five rules independently and collects every
\* violation: the error of a rule is in the returned list exactly when that
\* rule is violated, whatever the other rules say, and the list is empty
\* exactly when no rule is violated.
Reported(message) == \E k \in 1 .. Len(fnResult) : fnResult[k] = message

C14_CollectsEveryViolation ==
  pc = "validate_returned" =>
    /\ Reported(ErrPrompt) <=> PromptMissing(fnArgs.prompt)
    /\ Reported(ErrPromptLength) <=> PromptTooLong(fnArgs.prompt)
    /\ Reported(ErrStyle) <=> StyleInvalid(fnArgs.style)
    /\ Reported(ErrColorsType) <=> ColorsNotArray(fnArgs.brandColors)
    /\ Reported(ErrColorsCount) <=> ColorsTooMany(fnArgs.brandColors)
    /\ fnResult = <<>> <=>
         ~ \/ PromptMissing(fnArgs.prompt)
           \/ PromptTooLong(fnArgs.prompt)
           \/ StyleInvalid(fnArgs.style)
           \/ ColorsNotArray(fnArgs.brandColors)
           \/ ColorsTooMany(fnArgs.brandColors)

C14_Witness ==
  /\ pc = "validate_returned"
  /\ fnResult = <<ErrPrompt, ErrPromptLength, ErrStyle, ErrColorsType, ErrColorsCount>>

\* C15: validateInput reports no prompt error exactly when prompt is a string
\* whose trimmed form has 1 to 200 characters.
C15_PromptRuleOnTrimmedLength ==
  pc = "validate_returned" =>
    ((~Reported(ErrPrompt) /\ ~Reported(ErrPromptLength)) <=>
       (/\ fnArgs.prompt.kind = "string"
        /\ Len(Trim(fnArgs.prompt.str)) \in 1 .. 200))

\* C16: validateInput accepts a style exactly when it is one of the integers
\* 1..5; every other value gets 'Invalid style selection'.
C16_StyleExactlyOneToFive ==
  pc = "validate_returned" =>
    (~Reported(ErrStyle) <=>
       (fnArgs.style.kind = "number" /\ fnArgs.style.num \in 1 .. 5))

\* C17: validateInput reports no brandColors error exactly when brandColors
\* is absent or null or an array of at most 5 entries; a present non-array is
\* rejected as not an array and an array of 6 or more as too many.
C17_ColorsAbsentOrShortArray ==
  pc = "validate_returned" =>
    LET c == fnArgs.brandColors IN
      /\ (~Reported(ErrColorsType) /\ ~Reported(ErrColorsCount)) <=>
           \/ c.kind \in {"undefined", "null"}
           \/ c.kind = "array" /\ Len(c.items) <= 5
      /\ c.kind \notin {"undefined", "null", "array"} => Reported(ErrColorsType)
      /\ (c.kind = "array" /\ Len(c.items) >= 6) => Reported(ErrColorsCount)

\* C18: every attempt of the task with index i passes the seed baseSeed + i to
\* the backend, the four seeds are pairwise distinct, and each icon of the
\* response carries the seed of its own index.
C18_SeedPerIndex ==
  /\ \A i \in ICON_VARIATIONS :
       /\ Len(sent[i]) = calls[i]
       /\ \A k \in 1 .. Len(sent[i]) : sent[i][k].seed = baseSeed + i
  /\ \A i, j \in ICON_VARIATIONS :
       (i # j /\ sent[i] # <<>> /\ sent[j] # <<>>) => sent[i][1].seed # sent[j][1].seed
  /\ \A r \in 1 .. Len(results) : results[r].seed = baseSeed + results[r].index
  /\ (pc = "done" /\ response.statusCode = 200) =>
       \A k \in 1 .. Len(response.icons) :
         response.icons[k].seed = baseSeed + response.icons[k].prompt.variation

C18_Witness ==
  /\ pc = "done"
  /\ response.statusCode = 200
  /\ Len(sent[1]) = 3
  /\ Succeeded(1)
  /\ Len(response.icons) = 4
  /\ response.icons[4].seed = baseSeed + 3

\* C19: planning is deterministic: the base seed and, for every index, the
\* fullPrompt and the seed handed to the backend and recorded in the results
\* are fixed by (prompt, style, brandColors) alone, whatever the backend
\* answered and however many retries were made.
C19_PlanFixedByRequest ==
  pc \in {"awaiting", "sleeping", "done"} =>
    LET seed0 == generateSeed(Trim(request.prompt), request.style) IN
      /\ baseSeed = seed0
      /\ \A i \in ICON_VARIATIONS : \A k \in 1 .. Len(sent[i]) :
           /\ sent[i][k].seed = seed0 + i
           /\ sent[i][k].prompt = fullPrompt(request, i)
      /\ \A r \in 1 .. Len(results) :
           /\ results[r].seed = seed0 + results[r].index
           /\ results[r].prompt = fullPrompt(request, results[r].index)

C19_Witness ==
  /\ pc = "done"
  /\ Exhausted(0)
  /\ hist[1] = <<"fail", "ok">>
  /\ hist[2] = <<"ok">>
  /\ Len(sent[0]) = 3
  /\ Len(sent[1]) = 2

\* C20: generateSeed returns the absolute value of the hash obtained by folding
\* hash := hash * 31 + charCode, wrapped to a signed 32-bit integer, over the
\* characters of "{prompt}-{style}"; the result is never negative.
PolyStep(h, c) ==
  LET lo == h.lo * 31 + c
      hi == h.hi * 31 + (lo \div Half)
  IN  [hi |-> hi % Half, lo |-> lo % Half]

RECURSIVE PolyFold(_, _)
PolyFold(h, s) ==
  IF s = <<>> THEN h ELSE PolyFold(PolyStep(h, Head(s)), Tail(s))

\* the word read as a signed 32-bit integer
SignedInt32(h) ==
  IF h.hi >= 32768 THEN (h.hi - 65536) * 65536 + h.lo ELSE h.hi * 65536 + h.lo

PolyHash(prompt, style) ==
  SignedInt32(PolyFold([hi |-> 0, lo |-> 0], prompt \o <<45, 48 + style>>))

C20_SeedIsAbsOfPolyHash ==
  pc = "seed_returned" =>
    LET hash == PolyHash(fnArgs.prompt, fnArgs.style) IN
      /\ fnResult = IF hash < 0 THEN 0 - hash ELSE hash
      /\ fnResult >= 0

C20_Witness ==
  /\ pc = "seed_returned"
  /\ PolyHash(fnArgs.prompt, fnArgs.style) < 0
  /\ Len(fnArgs.prompt) = 4
  /\ fnResult > 0

\* C21: generateSeed separates distinct inputs: two calls with different
\* prompts and the same style return different seeds, and two calls with the
\* same prompt and different styles in 1..5 return different seeds.
C21_SeparatesDistinctInputs ==
  pc = "seed_returned" =>
    \A other \in SeedInputs :
      (/\ other # fnArgs
       /\ (other.style = fnArgs.style \/ other.prompt = fnArgs.prompt))
        => generateSeed(other.prompt, other.style) # fnResult

\* the hash of "{prompt}-{style}" before Math.abs, as a signed integer
SignedHash(prompt, style) ==
  SignedInt32(HashFold([hi |-> 0, lo |-> 0], SeedString(prompt, style)))

\* C21, amended: for the same prompt, two different styles in 1..5 give
\* different signed hashes, so that their seeds are equal only when the two
\* hashes are opposite numbers.
C21_StylesSeparateHashes ==
  pc = "seed_returned" =>
    \A s \in STYLE_PROMPTS \ {fnArgs.style} :
      LET h1 == SignedHash(fnArgs.prompt, fnArgs.style)
          h2 == SignedHash(fnArgs.prompt, s)
      IN  /\ h1 # h2
          /\ generateSeed(fnArgs.prompt, s) = fnResult => h1 = 0 - h2

\* 'Aa' and 'BB' with style 1 return the same seed; 'Aa' with style 2 another
C21_Witness ==
  /\ pc = "seed_returned"
  /\ fnArgs.prompt = <<65, 97>>
  /\ fnArgs.style = 1
  /\ fnResult = generateSeed(<<66, 66>>, 1)
  /\ fnResult # generateSeed(<<65, 97>>, 2)

\* C22: the prompt is trimmed before it is used in planning: two valid
\* requests whose prompts differ only in leading or trailing whitespace have
\* the same fullPrompt and the same seed handed to the backend for every index.
C22_PlanFromTrimmedPrompt ==
  pc \in {"awaiting", "sleeping", "done"} =>
    \A other \in ValidRequests :
      (/\ Trim(other.prompt) = Trim(request.prompt)
       /\ other.style = request.style
       /\ other.brandColors = request.brandColors)
        => \A i \in ICON_VARIATIONS : \A k \in 1 .. Len(sent[i]) :
             /\ sent[i][k].seed = generateSeed(Trim(other.prompt), other.style) + i
             /\ sent[i][k].prompt = fullPrompt(other, i)

\* C23: in every 200 response the icons are listed in strictly ascending
\* order of task index.
C23_IconsAscending ==
  (pc = "done" /\ response.statusCode = 200) =>
    \A k \in 1 .. Len(response.icons) - 1 :
      /\ response.icons[k].prompt.variation < response.icons[k + 1].prompt.variation
      /\ response.icons[k].seed < response.icons[k + 1].seed

C23_Witness ==
  /\ pc = "done"
  /\ response.statusCode = 200
  /\ IconIndexes = {0, 2, 3}
  /\ hist[3] = <<"ok">>
  /\ hist[0] = <<"fail", "fail", "ok">>

\* C25: when every backend call settles, the handler ends with a response,
\* and it never makes more than 3 backend invocations per task, 12 in total,
\* nor waits more than 8 backoff delays.
TotalCalls == calls[0] + calls[1] + calls[2] + calls[3]
TotalDelays == Len(delays[0]) + Len(delays[1]) + Len(delays[2]) + Len(delays[3])

\* the number of steps the handler can still take: 2 * MAX_RETRIES + 1 awaits
\* and timers per task that is left, less those already spent on this task
StepsLeft ==
  CASE pc = "idle" -> 1 + NumVariations * (2 * MAX_RETRIES + 2)
    [] pc = "awaiting" ->
         (NumVariations - index) * (2 * MAX_RETRIES + 2) - 2 * attempt
    [] pc = "sleeping" ->
         (NumVariations - index) * (2 * MAX_RETRIES + 2) - 2 * attempt - 1
    [] OTHER -> 0

\* Termination is stated by its proof: every step of the handler lowers
\* StepsLeft, which is never negative; while StepsLeft is positive the handler
\* waits for nothing but the request, a backend call that settles or a timer;
\* and it has responded when StepsLeft is 0.
C25_TerminatesWithinBudget ==
  /\ [][StepsLeft' < StepsLeft]_vars
  /\ [](/\ StepsLeft >= 0
        /\ StepsLeft = 0 <=> pc \in {"done", "rejected"}
        /\ StepsLeft = 0 => response # NoResponse
        /\ StepsLeft > 0 => pc \in {"idle", "awaiting", "sleeping"}
        /\ \A i \in ICON_VARIATIONS : calls[i] <= MAX_RETRIES + 1
        /\ TotalCalls <= 12
        /\ TotalDelays <= 8)

C25_Witness ==
  /\ pc = "done"
  /\ response # NoResponse
  /\ TotalCalls = 12
  /\ TotalDelays = 8

\* C26: a POST whose body is not valid JSON, or parses to null or to a value
\* that is no object, is answered with an error response that has the fields
\* error and details, and the backend is not invoked.
C26_MalformedBodyAnswered ==
  pc \in {"caught", "rejected"} =>
    /\ response.fields = {"error", "details"}
    /\ response.statusCode \in {400, 429, 500, 503, 504}
    /\ response.error # ""
    /\ response.icons = <<>>
    /\ TotalCalls = 0
    /\ \A i \in ICON_VARIATIONS : sent[i] = <<>> /\ hist[i] = <<>>

C26_Witness ==
  /\ pc = "caught"
  /\ response.statusCode = 500
  /\ response.details.kind = "type"
  /\ TotalCalls = 0

\* the tasks of the invocation st whose last awaited attempt resolved
OwnSuccesses(st) ==
  {i \in ICON_VARIATIONS :
     st.hist[i] # <<>> /\ st.hist[i][Len(st.hist[i])] = "ok"}

\* the response of the invocation st, called with the body req, follows from
\* req and from how its own backend calls ended
OwnResponse(st, req) ==
  st.pc = "done" =>
    LET ok == OwnSuccesses(st)
        seed0 == generateSeed(Trim(req.prompt), req.style)
        icons == st.response.icons
    IN  /\ st.response.statusCode = 200 <=> Cardinality(ok) >= MinSuccess
        /\ st.response.statusCode = 200 =>
             /\ Len(icons) = Cardinality(ok)
             /\ {icons[k].prompt.variation : k \in 1 .. Len(icons)} = ok
             /\ \A k \in 1 .. Len(icons) :
                  /\ icons[k].prompt = fullPrompt(req, icons[k].prompt.variation)
                  /\ icons[k].seed = seed0 + icons[k].prompt.variation
             /\ {st.response.errors[k].index :
                   k \in 1 .. Len(st.response.errors)} = ICON_VARIATIONS \ ok
        /\ st.response.statusCode # 200 =>
             st.response.details.succeeded = Cardinality(ok)

\* C24: when two invocations of the handler are interleaved at their awaits,
\* the response of each is determined by its own request and by the outcomes
\* of its own backend calls only.
C24_NoCrossRequestState ==
  /\ OwnResponse(Loaded, TwoRequest(who))
  /\ OwnResponse(peer, TwoRequest(3 - who))

C24_Witness ==
  /\ pc = "done"
  /\ peer.pc = "done"
  /\ response.statusCode = 200
  /\ Len(response.icons) = 2
  /\ peer.response.statusCode = 500
  /\ OwnSuccesses(peer) = {3}

C28_OneRequestInFlight ==
  /\ [](/\ Len(ui.inflight) <= 1
        /\ ui.loading <=> ui.inflight # <<>>)
  /\ [][Len(ui.inflight') > Len(ui.inflight) =>
          (~ui.loading /\ Trim(ui.prompt) # <<>> /\ ui.loading')]_vars
  /\ [][Len(ui.inflight') < Len(ui.inflight) => ~ui.loading']_vars

C28_Witness ==
  /\ ui.loading
  /\ ui.inflight = <<"data">>
  /\ ui.prompt = <<32, 97>>
  /\ ButtonDisabled(ui)

\* C29: a non-empty icon list and a non-empty error are never held together:
\* starting a generation clears both, a success sets only the icons and a
\* failure sets only the error.
C29_IconsXorError ==
  /\ [](~(ui.icons # <<>> /\ ui.error # ""))
  /\ [][Len(ui.inflight') > Len(ui.inflight) =>
          (ui.icons' = <<>> /\ ui.error' = "")]_vars
  /\ [][Len(ui.inflight') < Len(ui.inflight) =>
          \/ ui.icons' # <<>> /\ ui.error' = ""
          \/ ui.icons' = <<>> /\ ui.error' # ""]_vars
  /\ [][ui.error' # ui.error /\ ui.error' # "" => ui.icons' = <<>>]_vars

C29_Witness ==
  /\ ~ui.loading
  /\ Len(ui.icons) = 3
  /\ ui.error = ""
  /\ ui.inflight = <<>>

====
